---- MODULE Spec2Model ----
(***************************************************************************)
(* Model of the measurement controller of ecc-vs-dilithium-analysis        *)
(* (controller.py): TestController.run_test driving ECCImplementation      *)
(* and DILITHIUMImplementation, one shared controller called from several  *)
(* request threads.  Every attribute load / store of the shared key slots  *)
(* is one step, so the interleavings of the interpreter are represented.   *)
(*                                                                         *)
(* The cryptographic libraries are external.  A key pair is a fresh        *)
(* positive number (0 is Python's None), a signature is the pair of the    *)
(* signing key and the signed message, and the library verifies a          *)
(* signature iff it was made with the matching key over the same message.  *)
(***************************************************************************)
EXTENDS Integers, Sequences, FiniteSets, TLC

\* ------------------------------------------------------------------ bounds
MaxCalls    == 2     \* run_test calls started in one concurrent behaviour
MaxSeqCalls == 4     \* run_test calls started in one sequential behaviour
MaxTime     == 1     \* largest reading of time.perf_counter(), in ticks
MaxMem      == 1     \* largest change of the resident set size
MaxKeys     == 2     \* key pairs generated by direct calls on instances
MaxRequests == 1     \* HTTP requests dispatched to the controller
MaxSigs     == 1     \* signatures held by a caller of the instances
MaxRecords  == 3     \* records a test creates before it asks for statistics

\* Two request threads share the controller (views.py:12-13).
Threads     == {"A", "B"}
\* The readings are sampled at their extremes: the clock did not advance
\* or advanced by MaxTime ticks; the resident set shrank by MaxMem pages,
\* stayed, or grew by MaxMem pages.
TimeSamples == {0, MaxTime}
MemSamples  == {0 - MaxMem, 0, MaxMem}

\* ------------------------------------------------------------------ inputs
Registrable == {"ecc", "dilithium"}
AlgNames    == Registrable \cup {"unknown"}
KnownOps    == {"keygen", "sign", "verify"}
OpNames     == KnownOps \cup {"bogus_op"}
Sizes       == {-1, 32}       \* message sizes of the concurrent calls
SeqSizes    == {-1, 0, 32}    \* message sizes of the sequential calls

None == 0            \* the absent key

VARIABLES
  ECC_AVAILABLE,       \* controller.py:19-24
  DILITHIUM_AVAILABLE, \* controller.py:27-31
  algorithms,          \* TestController.algorithms: the registered names
  faulty,              \* registered algorithms whose library is defective
  private_key,         \* [name -> key]  <instance>.private_key
  public_key,          \* [name -> key]  <instance>.public_key
  nextKey,             \* the next fresh key pair the library produces
  calls,               \* run_test calls started so far
  pc,                  \* [thread -> position inside run_test]
  arg,                 \* [thread -> the arguments of its current call]
  frame,               \* [thread -> the locals of its current call]
  outcome,             \* what the step just taken handed to the caller
  last,                \* the direct call on an instance just made
  signatures,          \* the signatures direct calls of sign have returned
  records,             \* the persisted TestResult rows, oldest first
  response             \* the HTTP request being served or just answered

vars == << ECC_AVAILABLE, DILITHIUM_AVAILABLE, algorithms, faulty,
           private_key, public_key, nextKey, calls, pc, arg, frame, outcome,
           last, signatures, records, response >>

keys  == << private_key, public_key >>
\* What no step of run_test changes.
fixed == << ECC_AVAILABLE, DILITHIUM_AVAILABLE, algorithms, faulty,
            last, signatures, records, response >>

\* ----------------------------------------------------------- values
NoArg == [algorithm |-> "", operation |-> "", message_size |-> 0]
NoMsg == [len |-> -1]
NoSig == [key |-> None, msg |-> NoMsg]
NoExc == << >>

\* The locals of run_test and of the generate_keys it calls:
\*   test_message, memory_before, signature, end_time  run_test's locals
\*   fresh        the key pair the library made for this call
\*                (controller.py:47 and 100)
\*   loaded       self.private_key as loaded at controller.py:48
\*   exc          the exception in flight, << >> if none
\*   provisioned  the call has invoked generate_keys
NoFrame == [test_message |-> NoMsg, memory_before |-> 0, fresh |-> None,
            loaded |-> None, signature |-> NoSig, end_time |-> 0,
            exc |-> NoExc, provisioned |-> FALSE]

\* os.urandom(n): n random bytes.  run_test only ever compares the message
\* with itself, so a message is represented by its length.
urandom(n) == [len |-> n]

\* The library's verification: the signature was made with the private key
\* matching `pub` over exactly `msg`.
LibVerify(pub, msg, sig) == sig.key = pub /\ sig.msg = msg

\* Exception texts, kept as the pieces of the f-string / literal.
KeysNotGenerated   == << "Keys not generated. Call generate_keys() first." >>
VerificationFailed == << "Signature verification failed" >>
UnknownOperation(op) == << "Unknown operation: ", op >>
NegativeArgument   == << "negative argument not allowed" >>
BackendFault       == << "library error" >>

\* str(list(self.algorithms.keys())): insertion order is ecc, dilithium.
AvailableRepr(algs) ==
  IF algs = {} THEN "[]"
  ELSE IF algs = {"ecc"} THEN "['ecc']"
  ELSE IF algs = {"dilithium"} THEN "['dilithium']"
  ELSE "['ecc', 'dilithium']"

\* controller.py:151-156
NotAvailableMsg(algorithm) ==
  << "Algorithm '", algorithm, "' not available. Available: ",
     AvailableRepr(algorithms) >>
  \o (IF algorithm = "ecc" /\ ~ECC_AVAILABLE
        THEN << ". Install: pip install ecdsa" >>
      ELSE IF algorithm = "dilithium" /\ ~DILITHIUM_AVAILABLE
        THEN << ". Install liboqs C library and liboqs-python" >>
      ELSE << >>)

\* interfaces.py CryptoResult; error_message is the empty set for None and
\* a singleton for a string.  The timestamp is a clock reading that no
\* claim constrains and is left out.
CryptoResult(a, o, n, time, mem, st, err) ==
  [algorithm |-> a, operation |-> o, message_size |-> n,
   execution_time_ms |-> time, memory_usage_kb |-> mem,
   status |-> st, error_message |-> err]

NoResult == CryptoResult("", "", 0, 0, 0, "", {})

Max(a, b) == IF a >= b THEN a ELSE b

\* The clock is read in ticks of four fifths of 0.0001 ms (TickNum over
\* TickDen), so that a reading is no multiple of 0.0001 ms in general and
\* never falls halfway between two values of the fourth decimal.
TickNum == 4
TickDen == 5

\* round((end_time - start_time) * 1000, 4), controller.py:195 and 204:
\* the nearest multiple of 0.0001 ms, counted in units of 0.0001 ms.
round4(ticks) == (2 * TickNum * ticks + TickDen) \div (2 * TickDen)

\* What the step just taken handed to the caller of run_test: kind is
\* "none" if the step did not leave run_test, "returned" with the result,
\* or "raised" with the exception that left run_test and the arguments of
\* the call.  `provisioned` remembers whether the call invoked
\* generate_keys and `generated` the key pair the library made for it;
\* `elapsed` is end_time - start_time in ticks and `memory_delta` is
\* memory_after - memory_before, both 0 if line 192 was not reached.
NoOutcome == [kind |-> "none", thread |-> "", result |-> NoResult,
              raised |-> NoExc, provisioned |-> FALSE, generated |-> None,
              elapsed |-> 0, memory_delta |-> 0]
Returned(t, r) == [kind |-> "returned", thread |-> t, result |-> r,
                   raised |-> NoExc, provisioned |-> frame[t].provisioned,
                   generated |-> frame[t].fresh,
                   elapsed |-> 0, memory_delta |-> 0]
Raised(t, e)   == [kind |-> "raised", thread |-> t,
                   result |-> [NoResult EXCEPT !.algorithm = arg[t].algorithm,
                                               !.operation = arg[t].operation,
                                               !.message_size = arg[t].message_size],
                   raised |-> e, provisioned |-> frame[t].provisioned,
                   generated |-> frame[t].fresh,
                   elapsed |-> 0, memory_delta |-> 0]

\* ---------------------------------------------------- HTTP layer, values
\* The message_size member of a request body as json.loads yields it: a
\* number, kept as twice its value so that a half can be told from a whole,
\* a text that is no numeral, or no member at all.
Number(twice) == [kind |-> "number", twice |-> twice]
Text          == [kind |-> "text", twice |-> 0]
Absent        == [kind |-> "absent", twice |-> 0]

\* int(data.get('message_size', 256)), views.py:28: int() of a text that is
\* no numeral raises ValueError; int() of a number that is not negative
\* drops its fraction; the default is 256.
IntRaises(raw) == raw.kind = "text"
int(raw) == IF raw.kind = "absent" THEN 256 ELSE raw.twice \div 2

\* A request body; `json` is FALSE for a body json.loads cannot decode.
Request(j, a, o, raw) ==
  [json |-> j, algorithm |-> a, operation |-> o, message_size |-> raw]
NoRequest == Request(FALSE, "", "", Absent)

\* The bodies sent.  Every algorithm and operation with the sizes 32 and
\* 4096; then 'invalid json', an unknown algorithm, an unknown operation,
\* the sizes 31, 4097, 4096.5 and "abc", and a body without message_size.
Requests ==
  {Request(TRUE, a, o, Number(2 * n)) :
     a \in Registrable, o \in KnownOps, n \in {32, 4096}}
  \cup {NoRequest,
        Request(TRUE, "unknown", "keygen", Number(2 * 32)),
        Request(TRUE, "unknown", "keygen", Text),
        Request(TRUE, "ecc", "bogus_op", Number(2 * 32)),
        Request(TRUE, "ecc", "sign", Number(2 * 31)),
        Request(TRUE, "ecc", "sign", Number(2 * 4097)),
        Request(TRUE, "ecc", "sign", Number(2 * 4096 + 1)),
        Request(TRUE, "ecc", "sign", Text),
        Request(TRUE, "dilithium", "verify", Absent)}

\* TestResult (models.py:23-31) as views.py:53-61 creates it; the id is
\* the position in `records`, the timestamp is left out.
TestResult(a, o, n, result) ==
  [algorithm |-> a, operation |-> o, message_size |-> n,
   execution_time_ms |-> result.execution_time_ms,
   memory_usage_kb |-> result.memory_usage_kb,
   status |-> result.status,
   error_message |-> result.error_message]

\* The request in hand: kind is "pending" while the controller runs for it
\* and "reply" once it is answered with `status`.
Pending(req)       == [kind |-> "pending", request |-> req, status |-> 0]
Reply(req, status) == [kind |-> "reply", request |-> req, status |-> status]
NoResponse         == [kind |-> "none", request |-> NoRequest, status |-> 0]

\* Instances constructed by a caller of the implementation classes, two of
\* each class (test_ecc_key_isolation, test_dilithium_key_isolation).
Instances == {"ecc1", "ecc2", "dil1", "dil2"}
ClassOf(i) == IF i \in {"ecc1", "ecc2"} THEN "ecc" ELSE "dilithium"

\* Messages passed to sign and verify: byte strings, the empty one included.
Messages == {<< >>, <<0>>}

\* b"fake signature": bytes that no key pair has produced.
FakeSignature == [key |-> None, msg |-> << >>]

\* A signature with a byte removed, added or changed: it no longer is what
\* any key pair produces.
Damaged(sig) == [key |-> None, msg |-> sig.msg]

\* A direct call and what it handed back: kind is "returned" or "raised";
\* `sig` is the signature passed to verify or returned by sign, `value` the
\* boolean verify returned; `repeated` marks a verify that follows a verify
\* on the same instance with the same message and signature.
DirectCall(o, i, m, s, k, v, e) ==
  [op |-> o, inst |-> i, msg |-> m, sig |-> s, kind |-> k, value |-> v,
   raised |-> e, repeated |-> FALSE]
NoCall == DirectCall("", "", << >>, FakeSignature, "none", FALSE, NoExc)

\* --------------------------------------------------------------- Init
\* A constructor that makes an entry for both algorithms without looking
\* at the availability flags and without a try around the constructions.
Init_RegistersAll ==
  /\ ECC_AVAILABLE \in BOOLEAN
  /\ DILITHIUM_AVAILABLE \in BOOLEAN
  /\ algorithms = Registrable
  /\ faulty \in SUBSET algorithms
  /\ private_key = [a \in Registrable |-> None]
  /\ public_key  = [a \in Registrable |-> None]
  /\ nextKey = 1
  /\ calls = 0
  /\ pc = [t \in Threads |-> "idle"]
  /\ arg = [t \in Threads |-> NoArg]
  /\ frame = [t \in Threads |-> NoFrame]
  /\ outcome = NoOutcome
  /\ last = NoCall
  /\ signatures = {}
  /\ records = << >>
  /\ response = NoResponse

\* TestController.__init__ (controller.py:125-142): an entry is made for
\* each library that imported and whose implementation constructed.
\* ECCImplementation() cannot fail once ecdsa imported;
\* DILITHIUMImplementation() fails when the mechanism is not enabled.
Init ==
  /\ ECC_AVAILABLE \in BOOLEAN
  /\ DILITHIUM_AVAILABLE \in BOOLEAN
  /\ \E dilOk \in BOOLEAN :
       algorithms = (IF ECC_AVAILABLE THEN {"ecc"} ELSE {})
                      \cup (IF DILITHIUM_AVAILABLE /\ dilOk THEN {"dilithium"} ELSE {})
  /\ faulty \in SUBSET algorithms
  /\ private_key = [a \in Registrable |-> None]
  /\ public_key  = [a \in Registrable |-> None]
  /\ nextKey = 1
  /\ calls = 0
  /\ pc = [t \in Threads |-> "idle"]
  /\ arg = [t \in Threads |-> NoArg]
  /\ frame = [t \in Threads |-> NoFrame]
  /\ outcome = NoOutcome
  /\ last = NoCall
  /\ signatures = {}
  /\ records = << >>
  /\ response = NoResponse

\* Leaving run_test: the frame is dropped.
Leave(t, out) ==
  /\ pc' = [pc EXCEPT ![t] = "idle"]
  /\ outcome' = out
  /\ arg' = [arg EXCEPT ![t] = NoArg]
  /\ frame' = [frame EXCEPT ![t] = NoFrame]

Goto(t, label) == pc' = [pc EXCEPT ![t] = label]

\* ------------------------------------------------------------ run_test
Alg(t)  == arg[t].algorithm
Op(t)   == arg[t].operation
Size(t) == arg[t].message_size

\* Outcomes of one library call: a defective library may raise.
LibRaises(a) == IF a \in faulty THEN BOOLEAN ELSE {FALSE}

\* A request thread enters run_test(algorithm, operation, message_size).
Enter(t, limit, sizes) ==
  /\ pc[t] = "idle"
  /\ calls < limit
  /\ \E a \in AlgNames, o \in OpNames, n \in sizes :
       arg' = [arg EXCEPT ![t] = [algorithm |-> a, operation |-> o,
                                  message_size |-> n]]
  /\ calls' = calls + 1
  /\ Goto(t, "lookup")
  /\ outcome' = NoOutcome
  /\ UNCHANGED << fixed, keys, nextKey, frame >>

Call(t) == Enter(t, MaxCalls, Sizes)

\* Lookup without the membership test of controller.py:150: the subscript
\* self.algorithms[algorithm] raises KeyError for an unregistered name.
Lookup_Unchecked(t) ==
  /\ pc[t] = "lookup"
  /\ IF Alg(t) \notin algorithms
       THEN Leave(t, Raised(t, << "KeyError: ", Alg(t) >>))
       ELSE /\ Goto(t, "urandom")
            /\ outcome' = NoOutcome
            /\ UNCHANGED << arg, frame >>
  /\ UNCHANGED << fixed, keys, nextKey, calls >>

\* controller.py:150-169: an unregistered algorithm is reported at once.
Lookup(t) ==
  /\ pc[t] = "lookup"
  /\ IF Alg(t) \notin algorithms
       THEN Leave(t, Returned(t, CryptoResult(Alg(t), Op(t), Size(t), 0, 0,
                        "failure", {NotAvailableMsg(Alg(t))})))
       ELSE /\ Goto(t, "urandom")
            /\ outcome' = NoOutcome
            /\ UNCHANGED << arg, frame >>
  /\ UNCHANGED << fixed, keys, nextKey, calls >>

\* run_test with the test message generated only when sign needs it, inside
\* the timed window: line 170 only rejects a negative size.
Urandom_Deferred(t) ==
  /\ pc[t] = "urandom"
  /\ IF Size(t) < 0
       THEN Leave(t, Raised(t, NegativeArgument))
       ELSE /\ Goto(t, "mem_before")
            /\ outcome' = NoOutcome
            /\ UNCHANGED << arg, frame >>
  /\ UNCHANGED << fixed, keys, nextKey, calls >>

\* controller.py:170: os.urandom(message_size), outside the try block;
\* a negative size raises ValueError.
Urandom(t) ==
  /\ pc[t] = "urandom"
  /\ IF Size(t) < 0
       THEN Leave(t, Raised(t, NegativeArgument))
       ELSE /\ frame' = [frame EXCEPT ![t].test_message = urandom(Size(t))]
            /\ Goto(t, "mem_before")
            /\ outcome' = NoOutcome
            /\ UNCHANGED arg
  /\ UNCHANGED << fixed, keys, nextKey, calls >>

\* controller.py:172 and 144-146.  Only the difference of the two readings
\* of the resident set size is used, so readings are counted from this one.
memory_origin == 0

MeasureBefore(t) ==
  /\ pc[t] = "mem_before"
  /\ frame' = [frame EXCEPT ![t].memory_before = memory_origin]
  /\ Goto(t, "timer_start")
  /\ outcome' = NoOutcome
  /\ UNCHANGED << fixed, keys, nextKey, calls, arg >>

\* controller.py:173.  The origin of time.perf_counter() is arbitrary and
\* only the difference of two readings is used, so readings are counted
\* from this one.
start_time == 0

StartTimer(t) ==
  /\ pc[t] = "timer_start"
  /\ Goto(t, "dispatch")
  /\ outcome' = NoOutcome
  /\ UNCHANGED << fixed, keys, nextKey, calls, arg, frame >>

\* `if not algo.private_key` (controller.py:179 and 183)
NeedsKeys(a) == private_key[a] = None

\* The dispatch with the test of line 179/183 also put before the keygen
\* branch: keygen skips generate_keys when a key is held.
Dispatch_KeygenIfMissing(t) ==
  /\ pc[t] = "dispatch"
  /\ IF Op(t) \in KnownOps /\ NeedsKeys(Alg(t))
       THEN /\ Goto(t, "generate_keys")
            /\ frame' = [frame EXCEPT ![t].provisioned = TRUE]
     ELSE IF Op(t) = "keygen"
       THEN /\ Goto(t, "timer_stop")
            /\ UNCHANGED frame
     ELSE IF Op(t) \in {"sign", "verify"}
       THEN /\ Goto(t, "sign")
            /\ UNCHANGED frame
     ELSE /\ frame' = [frame EXCEPT ![t].exc = UnknownOperation(Op(t))]
          /\ Goto(t, "except")
  /\ outcome' = NoOutcome
  /\ UNCHANGED << fixed, keys, nextKey, calls, arg >>

\* The dispatch without the test of line 179/183: sign and verify always
\* call generate_keys first.
Dispatch_AlwaysProvision(t) ==
  /\ pc[t] = "dispatch"
  /\ IF Op(t) \in KnownOps
       THEN /\ Goto(t, "generate_keys")
            /\ frame' = [frame EXCEPT ![t].provisioned = TRUE]
     ELSE /\ frame' = [frame EXCEPT ![t].exc = UnknownOperation(Op(t))]
          /\ Goto(t, "except")
  /\ outcome' = NoOutcome
  /\ UNCHANGED << fixed, keys, nextKey, calls, arg >>

\* The dispatch without the final else branch of lines 189-190: an operation
\* that is none of keygen, sign and verify falls through to line 192.
Dispatch_NoElse(t) ==
  /\ pc[t] = "dispatch"
  /\ IF Op(t) = "keygen" \/ (Op(t) \in {"sign", "verify"} /\ NeedsKeys(Alg(t)))
       THEN /\ Goto(t, "generate_keys")
            /\ frame' = [frame EXCEPT ![t].provisioned = TRUE]
     ELSE IF Op(t) \in {"sign", "verify"}
       THEN /\ Goto(t, "sign")
            /\ UNCHANGED frame
     ELSE /\ Goto(t, "timer_stop")
          /\ UNCHANGED frame
  /\ outcome' = NoOutcome
  /\ UNCHANGED << fixed, keys, nextKey, calls, arg >>

\* The dispatch that provisions a missing key pair before it looks at the
\* operation.
Dispatch_ProvisionFirst(t) ==
  /\ pc[t] = "dispatch"
  /\ IF Op(t) = "keygen" \/ NeedsKeys(Alg(t))
       THEN /\ Goto(t, "generate_keys")
            /\ frame' = [frame EXCEPT ![t].provisioned = TRUE]
     ELSE IF Op(t) \in {"sign", "verify"}
       THEN /\ Goto(t, "sign")
            /\ UNCHANGED frame
     ELSE /\ frame' = [frame EXCEPT ![t].exc = UnknownOperation(Op(t))]
          /\ Goto(t, "except")
  /\ outcome' = NoOutcome
  /\ UNCHANGED << fixed, keys, nextKey, calls, arg >>

\* controller.py:176-190: the dispatch on `operation`, up to the first
\* call into the instance.
Dispatch(t) ==
  /\ pc[t] = "dispatch"
  /\ IF Op(t) = "keygen" \/ (Op(t) \in {"sign", "verify"} /\ NeedsKeys(Alg(t)))
       THEN /\ Goto(t, "generate_keys")
            /\ frame' = [frame EXCEPT ![t].provisioned = TRUE]
     ELSE IF Op(t) \in {"sign", "verify"}
       THEN /\ Goto(t, "sign")
            /\ UNCHANGED frame
     ELSE /\ frame' = [frame EXCEPT ![t].exc = UnknownOperation(Op(t))]
          /\ Goto(t, "except")
  /\ outcome' = NoOutcome
  /\ UNCHANGED << fixed, keys, nextKey, calls, arg >>

\* Where run_test continues after algo.generate_keys() returned.
AfterGenerate(t) == IF Op(t) = "keygen" THEN "timer_stop" ELSE "sign"

\* generate_keys behind a lock on the instance: it waits while another call
\* on the same algorithm is between its sign and its verify.
ECC_generate_keys_47_Locked(t) ==
  /\ pc[t] = "generate_keys"
  /\ Alg(t) = "ecc"
  /\ \A u \in Threads \ {t} : ~(pc[u] = "verify" /\ Alg(u) = "ecc")
  /\ \E raises \in LibRaises("ecc") :
       IF raises
         THEN /\ frame' = [frame EXCEPT ![t].exc = BackendFault]
              /\ Goto(t, "except")
              /\ UNCHANGED << private_key, nextKey >>
         ELSE /\ private_key' = [private_key EXCEPT !["ecc"] = nextKey]
              /\ frame' = [frame EXCEPT ![t].fresh = nextKey]
              /\ nextKey' = nextKey + 1
              /\ Goto(t, "ecc_load")
  /\ outcome' = NoOutcome
  /\ UNCHANGED << fixed, public_key, calls, arg >>

\* ECCImplementation.generate_keys, controller.py:47:
\*   self.private_key = SigningKey.generate(curve=NIST256p)
ECC_generate_keys_47(t) ==
  /\ pc[t] = "generate_keys"
  /\ Alg(t) = "ecc"
  /\ \E raises \in LibRaises("ecc") :
       IF raises
         THEN /\ frame' = [frame EXCEPT ![t].exc = BackendFault]
              /\ Goto(t, "except")
              /\ UNCHANGED << private_key, nextKey >>
         ELSE /\ private_key' = [private_key EXCEPT !["ecc"] = nextKey]
              /\ frame' = [frame EXCEPT ![t].fresh = nextKey]
              /\ nextKey' = nextKey + 1
              /\ Goto(t, "ecc_load")
  /\ outcome' = NoOutcome
  /\ UNCHANGED << fixed, public_key, calls, arg >>

\* controller.py:48, the load of self.private_key
ECC_generate_keys_48_load(t) ==
  /\ pc[t] = "ecc_load"
  /\ frame' = [frame EXCEPT ![t].loaded = private_key["ecc"]]
  /\ Goto(t, "ecc_store")
  /\ outcome' = NoOutcome
  /\ UNCHANGED << fixed, keys, nextKey, calls, arg >>

\* The store into a public_key slot that the two implementation classes
\* share (an attribute of a common base class).
ECC_generate_keys_48_store_Shared(t) ==
  /\ pc[t] = "ecc_store"
  /\ public_key' = [a \in Registrable |-> frame[t].loaded]
  /\ Goto(t, AfterGenerate(t))
  /\ outcome' = NoOutcome
  /\ UNCHANGED << fixed, private_key, nextKey, calls, arg, frame >>

\* controller.py:48, the store self.public_key = <loaded>.get_verifying_key()
ECC_generate_keys_48_store(t) ==
  /\ pc[t] = "ecc_store"
  /\ public_key' = [public_key EXCEPT !["ecc"] = frame[t].loaded]
  /\ Goto(t, AfterGenerate(t))
  /\ outcome' = NoOutcome
  /\ UNCHANGED << fixed, private_key, nextKey, calls, arg, frame >>

\* DILITHIUMImplementation.generate_keys, controller.py:100:
\*   public_key, private_key = self.sig.generate_keypair()
DIL_generate_keys_100(t) ==
  /\ pc[t] = "generate_keys"
  /\ Alg(t) = "dilithium"
  /\ \E raises \in LibRaises("dilithium") :
       IF raises
         THEN /\ frame' = [frame EXCEPT ![t].exc = BackendFault]
              /\ Goto(t, "except")
              /\ UNCHANGED nextKey
         ELSE /\ frame' = [frame EXCEPT ![t].fresh = nextKey]
              /\ nextKey' = nextKey + 1
              /\ Goto(t, "dil_pub")
  /\ outcome' = NoOutcome
  /\ UNCHANGED << fixed, keys, calls, arg >>

\* controller.py:101  self.public_key = public_key
DIL_generate_keys_101(t) ==
  /\ pc[t] = "dil_pub"
  /\ public_key' = [public_key EXCEPT !["dilithium"] = frame[t].fresh]
  /\ Goto(t, "dil_priv")
  /\ outcome' = NoOutcome
  /\ UNCHANGED << fixed, private_key, nextKey, calls, arg, frame >>

\* controller.py:102  self.private_key = private_key
DIL_generate_keys_102(t) ==
  /\ pc[t] = "dil_priv"
  /\ private_key' = [private_key EXCEPT !["dilithium"] = frame[t].fresh]
  /\ Goto(t, AfterGenerate(t))
  /\ outcome' = NoOutcome
  /\ UNCHANGED << fixed, public_key, nextKey, calls, arg, frame >>

\* <instance>.sign(message), controller.py:51-55 and 105-109, called at
\* controller.py:181 (result dropped) and 185 (result kept as `signature`).
Sign(t) ==
  /\ pc[t] = "sign"
  /\ IF private_key[Alg(t)] = None
       THEN /\ frame' = [frame EXCEPT ![t].exc = KeysNotGenerated]
            /\ Goto(t, "except")
       ELSE \E raises \in LibRaises(Alg(t)) :
              IF raises
                THEN /\ frame' = [frame EXCEPT ![t].exc = BackendFault]
                     /\ Goto(t, "except")
                ELSE IF Op(t) = "verify"
                  THEN /\ frame' = [frame EXCEPT ![t].signature =
                                     [key |-> private_key[Alg(t)],
                                      msg |-> frame[t].test_message]]
                       /\ Goto(t, "verify")
                  ELSE /\ UNCHANGED frame
                       /\ Goto(t, "timer_stop")
  /\ outcome' = NoOutcome
  /\ UNCHANGED << fixed, keys, nextKey, calls, arg >>

\* What <instance>.verify returns on an instance that has a public key
\* (controller.py:61-65 and 115-119): the library's verdict, a library
\* exception being turned into False.
VerifyOutcomes(a, msg, sig) ==
  IF a \in faulty THEN {LibVerify(public_key[a], msg, sig), FALSE}
  ELSE {LibVerify(public_key[a], msg, sig)}

\* controller.py:186-188: is_valid = algo.verify(test_message, signature),
\* then `if not is_valid: raise ValueError(...)`.
Verify(t) ==
  /\ pc[t] = "verify"
  /\ IF public_key[Alg(t)] = None
       THEN /\ frame' = [frame EXCEPT ![t].exc = KeysNotGenerated]
            /\ Goto(t, "except")
       ELSE \E is_valid \in VerifyOutcomes(Alg(t), frame[t].test_message,
                                           frame[t].signature) :
              IF is_valid
                THEN /\ UNCHANGED frame
                     /\ Goto(t, "timer_stop")
                ELSE /\ frame' = [frame EXCEPT ![t].exc = VerificationFailed]
                     /\ Goto(t, "except")
  /\ outcome' = NoOutcome
  /\ UNCHANGED << fixed, keys, nextKey, calls, arg >>

\* controller.py:192: the clock does not run backwards.
StopTimer(t) ==
  /\ pc[t] = "timer_stop"
  /\ \E e \in TimeSamples :
       /\ e >= start_time
       /\ frame' = [frame EXCEPT ![t].end_time = e]
  /\ Goto(t, "mem_after")
  /\ outcome' = NoOutcome
  /\ UNCHANGED << fixed, keys, nextKey, calls, arg >>

\* The return without the clamp of line 196: the memory difference is
\* reported as measured.
ReturnSuccess_NoClamp(t) ==
  /\ pc[t] = "mem_after"
  /\ \E memory_after \in MemSamples :
       LET execution_time_ms == round4(frame[t].end_time - start_time)
           memory_usage_kb   == memory_after - frame[t].memory_before
       IN  Leave(t, [Returned(t, CryptoResult(Alg(t), Op(t), Size(t),
                       execution_time_ms, memory_usage_kb, "success", {}))
                     EXCEPT !.elapsed = frame[t].end_time - start_time,
                            !.memory_delta = memory_after - frame[t].memory_before])
  /\ UNCHANGED << fixed, keys, nextKey, calls >>

\* The return with the time truncated to the fourth decimal instead of
\* rounded to it.
ReturnSuccess_Truncated(t) ==
  /\ pc[t] = "mem_after"
  /\ \E memory_after \in MemSamples :
       LET execution_time_ms ==
             (TickNum * (frame[t].end_time - start_time)) \div TickDen
           memory_usage_kb   == Max(0, memory_after - frame[t].memory_before)
       IN  Leave(t, [Returned(t, CryptoResult(Alg(t), Op(t), Size(t),
                       execution_time_ms, memory_usage_kb, "success", {}))
                     EXCEPT !.elapsed = frame[t].end_time - start_time,
                            !.memory_delta = memory_after - frame[t].memory_before])
  /\ UNCHANGED << fixed, keys, nextKey, calls >>

\* controller.py:193-207.  The time is reported in units of 0.0001 ms, the
\* precision round(..., 4) keeps.  The resident set size is a whole number
\* of pages, so the memory difference is a whole number of KB, which
\* round(..., 3) leaves as it is; memory is counted in pages.
ReturnSuccess(t) ==
  /\ pc[t] = "mem_after"
  /\ \E memory_after \in MemSamples :
       LET execution_time_ms == round4(frame[t].end_time - start_time)
           memory_usage_kb   == Max(0, memory_after - frame[t].memory_before)
       IN  Leave(t, [Returned(t, CryptoResult(Alg(t), Op(t), Size(t),
                       execution_time_ms, memory_usage_kb, "success", {}))
                     EXCEPT !.elapsed = frame[t].end_time - start_time,
                            !.memory_delta = memory_after - frame[t].memory_before])
  /\ UNCHANGED << fixed, keys, nextKey, calls >>

\* The handler without the reset of the measurements: the failure result
\* carries the time measured up to the exception.
Except_PartialTiming(t) ==
  /\ pc[t] = "except"
  /\ \E e \in TimeSamples :
       Leave(t, Returned(t, CryptoResult(Alg(t), Op(t), Size(t), e, 0,
                   "failure", {frame[t].exc})))
  /\ UNCHANGED << fixed, keys, nextKey, calls >>

\* controller.py:209-219
Except(t) ==
  /\ pc[t] = "except"
  /\ Leave(t, Returned(t, CryptoResult(Alg(t), Op(t), Size(t), 0, 0,
                 "failure", {frame[t].exc})))
  /\ UNCHANGED << fixed, keys, nextKey, calls >>

\* One step of thread t inside run_test.
Step(t) ==
  \/ Lookup(t)
  \/ Urandom(t)
  \/ MeasureBefore(t)
  \/ StartTimer(t)
  \/ Dispatch(t)
  \/ ECC_generate_keys_47(t)
  \/ ECC_generate_keys_48_load(t)
  \/ ECC_generate_keys_48_store(t)
  \/ DIL_generate_keys_100(t)
  \/ DIL_generate_keys_101(t)
  \/ DIL_generate_keys_102(t)
  \/ Sign(t)
  \/ Verify(t)
  \/ StopTimer(t)
  \/ ReturnSuccess(t)
  \/ Except(t)

\* views.py:12-13 and 50: one controller, called by every request thread
\* without a lock.
Next == \E t \in Threads : Call(t) \/ Step(t)

Spec == Init /\ [][Next]_vars

\* The same controller when the calls do not overlap: a call starts only
\* while no other call is running.
SeqCall(t) ==
  /\ \A u \in Threads : pc[u] = "idle"
  /\ Enter(t, MaxSeqCalls, SeqSizes)

SeqNext == \E t \in Threads : SeqCall(t) \/ Step(t)

SeqSpec == Init /\ [][SeqNext]_vars

\* --------------------------------------------- direct calls on instances
\* The implementation classes called directly by one caller, without a
\* controller, as the tests of tests/test_cryptographic_correctness.py and
\* tests/test_cryptographic_implementations.py do.  The caller is a single
\* thread, so each method is one step.
controller == << ECC_AVAILABLE, DILITHIUM_AVAILABLE, algorithms, faulty,
                 calls, pc, arg, frame, outcome, records, response >>

\* A signature the caller holds, with where it came from: `signer` signed
\* `signed` while its private key was `under`.
Provenance(sig, i, m, k) ==
  [value |-> sig, signer |-> i, signed |-> m, under |-> k]

\* What the caller can pass to verify as a signature: a signature it holds,
\* a damaged copy of one, or unrelated bytes.
VerifyInputs ==
  {p.value : p \in signatures} \cup {Damaged(p.value) : p \in signatures}
    \cup {FakeSignature}

\* The library's verification call as the classes see it.
\* ecdsa, VerifyingKey.verify: returns True or raises BadSignatureError.
\* oqs, Signature.verify: returns a boolean; bytes that are no signature
\* at all may also make it raise.
LibraryVerify(class, pub, msg, sig) ==
  IF LibVerify(pub, msg, sig) THEN {"True"}
  ELSE IF class = "ecc" THEN {"raises"}
  ELSE IF sig.key = None THEN {"False", "raises"}
  ELSE {"False"}

\* verify with `return True` in the exception handler.
verify_returns_ExceptTrue(libOutcome) == libOutcome \in {"True", "raises"}

\* controller.py:60-65 and 114-119: what verify returns for the outcome of
\* the library call; an exception becomes False.
verify_returns(libOutcome) == libOutcome = "True"

\* generate_keys with the key slots as attributes of the class, shared by
\* its instances.
Instance_generate_keys_ClassLevel(i) ==
  /\ nextKey <= MaxKeys
  /\ private_key' = [j \in Instances |->
                       IF ClassOf(j) = ClassOf(i) THEN nextKey ELSE private_key[j]]
  /\ public_key'  = [j \in Instances |->
                       IF ClassOf(j) = ClassOf(i) THEN nextKey ELSE public_key[j]]
  /\ nextKey' = nextKey + 1
  /\ last' = DirectCall("generate_keys", i, << >>, FakeSignature,
                        "returned", FALSE, NoExc)
  /\ UNCHANGED << controller, signatures >>

\* ECCImplementation.generate_keys (controller.py:45-49) and
\* DILITHIUMImplementation.generate_keys (controller.py:98-103), run to
\* completion: both slots of the instance hold the fresh pair.
Instance_generate_keys(i) ==
  /\ nextKey <= MaxKeys
  /\ private_key' = [private_key EXCEPT ![i] = nextKey]
  /\ public_key'  = [public_key EXCEPT ![i] = nextKey]
  /\ nextKey' = nextKey + 1
  /\ last' = DirectCall("generate_keys", i, << >>, FakeSignature,
                        "returned", FALSE, NoExc)
  /\ UNCHANGED << controller, signatures >>

\* sign without the test of the private key: the library call is made on
\* None and fails with an error of its own.
Instance_sign_Unchecked(i) ==
  /\ \E m \in Messages :
       IF private_key[i] = None
         THEN /\ last' = DirectCall("sign", i, m, FakeSignature, "raised",
                                    FALSE, BackendFault)
              /\ UNCHANGED signatures
         ELSE LET sig == [key |-> private_key[i], msg |-> m]
                  p   == Provenance(sig, i, m, private_key[i])
              IN  /\ p \in signatures \/ Cardinality(signatures) < MaxSigs
                  /\ signatures' = signatures \cup {p}
                  /\ last' = DirectCall("sign", i, m, sig, "returned",
                                        FALSE, NoExc)
  /\ UNCHANGED << controller, keys, nextKey >>

\* sign with a hash function other than the one verify uses: the bytes it
\* returns are not a signature of the message under SHA-256.
Instance_sign_OtherHash(i) ==
  /\ \E m \in Messages :
       IF private_key[i] = None
         THEN /\ last' = DirectCall("sign", i, m, FakeSignature, "raised",
                                    FALSE, KeysNotGenerated)
              /\ UNCHANGED signatures
         ELSE LET sig == Damaged([key |-> private_key[i], msg |-> m])
                  p   == Provenance(sig, i, m, private_key[i])
              IN  /\ p \in signatures \/ Cardinality(signatures) < MaxSigs
                  /\ signatures' = signatures \cup {p}
                  /\ last' = DirectCall("sign", i, m, sig, "returned",
                                        FALSE, NoExc)
  /\ UNCHANGED << controller, keys, nextKey >>

\* sign that generates a fresh key pair before every signature.
Instance_sign_Rekeying(i) ==
  /\ nextKey <= MaxKeys
  /\ \E m \in Messages :
       LET sig == [key |-> nextKey, msg |-> m]
           p   == Provenance(sig, i, m, nextKey)
       IN  /\ p \in signatures \/ Cardinality(signatures) < MaxSigs
           /\ signatures' = signatures \cup {p}
           /\ last' = DirectCall("sign", i, m, sig, "returned", FALSE, NoExc)
  /\ private_key' = [private_key EXCEPT ![i] = nextKey]
  /\ public_key'  = [public_key EXCEPT ![i] = nextKey]
  /\ nextKey' = nextKey + 1
  /\ UNCHANGED controller

\* ECCImplementation.sign (controller.py:51-55) and
\* DILITHIUMImplementation.sign (controller.py:105-109).
Instance_sign(i) ==
  /\ \E m \in Messages :
       IF private_key[i] = None
         THEN /\ last' = DirectCall("sign", i, m, FakeSignature, "raised",
                                    FALSE, KeysNotGenerated)
              /\ UNCHANGED signatures
         ELSE LET sig == [key |-> private_key[i], msg |-> m]
                  p   == Provenance(sig, i, m, private_key[i])
              IN  /\ p \in signatures \/ Cardinality(signatures) < MaxSigs
                  /\ signatures' = signatures \cup {p}
                  /\ last' = DirectCall("sign", i, m, sig, "returned",
                                        FALSE, NoExc)
  /\ UNCHANGED << controller, keys, nextKey >>

\* verify that drops the public key when the library rejects the signature.
Instance_verify_Forgetting(i) ==
  /\ \E m \in Messages, s \in VerifyInputs :
       LET again == /\ last.op = "verify" /\ last.inst = i
                    /\ last.msg = m /\ last.sig = s
       IN  IF public_key[i] = None
             THEN /\ last' = [DirectCall("verify", i, m, s, "raised", FALSE,
                                         KeysNotGenerated)
                              EXCEPT !.repeated = again]
                  /\ UNCHANGED public_key
             ELSE \E r \in LibraryVerify(ClassOf(i), public_key[i], m, s) :
                    /\ last' = [DirectCall("verify", i, m, s, "returned",
                                           verify_returns(r), NoExc)
                                EXCEPT !.repeated = again]
                    /\ public_key' = IF verify_returns(r) THEN public_key
                                     ELSE [public_key EXCEPT ![i] = None]
  /\ UNCHANGED << controller, private_key, nextKey, signatures >>

\* ECCImplementation.verify (controller.py:57-65) and
\* DILITHIUMImplementation.verify (controller.py:111-119).
Instance_verify(i) ==
  /\ \E m \in Messages, s \in VerifyInputs :
       LET again == /\ last.op = "verify" /\ last.inst = i
                    /\ last.msg = m /\ last.sig = s
       IN  IF public_key[i] = None
             THEN last' = [DirectCall("verify", i, m, s, "raised", FALSE,
                                      KeysNotGenerated)
                           EXCEPT !.repeated = again]
             ELSE \E r \in LibraryVerify(ClassOf(i), public_key[i], m, s) :
                    last' = [DirectCall("verify", i, m, s, "returned",
                                        verify_returns(r), NoExc)
                             EXCEPT !.repeated = again]
  /\ UNCHANGED << controller, keys, nextKey, signatures >>

\* The instances after construction (controller.py:39-43 and 71-96): both
\* libraries imported, no controller in use, no key pair held.
DirectInit ==
  /\ ECC_AVAILABLE = TRUE
  /\ DILITHIUM_AVAILABLE = TRUE
  /\ algorithms = {}
  /\ faulty = {}
  /\ private_key = [i \in Instances |-> None]
  /\ public_key  = [i \in Instances |-> None]
  /\ nextKey = 1
  /\ calls = 0
  /\ pc = [t \in Threads |-> "idle"]
  /\ arg = [t \in Threads |-> NoArg]
  /\ frame = [t \in Threads |-> NoFrame]
  /\ outcome = NoOutcome
  /\ last = NoCall
  /\ signatures = {}
  /\ records = << >>
  /\ response = NoResponse

DirectNext ==
  \E i \in Instances :
    \/ Instance_generate_keys(i)
    \/ Instance_sign(i)
    \/ Instance_verify(i)

DirectSpec == DirectInit /\ [][DirectNext]_vars

\* ------------------------------------------------------------ HTTP layer
\* views.run_test up to the call of the controller (views.py:21-50, 77-87).
\* The requests are served one at a time by one thread, as Django's test
\* client sends them.
View_run_test(t) ==
  /\ \A u \in Threads : pc[u] = "idle"
  /\ outcome.kind = "none"
  /\ \E req \in Requests :
       LET a   == req.algorithm
           o   == req.operation
           raw == req.message_size
           rejected(status) ==
             /\ response' = Reply(req, status)
             /\ UNCHANGED << calls, pc, arg >>
       IN  IF ~req.json THEN rejected(400)
           ELSE IF IntRaises(raw) THEN rejected(500)
           ELSE IF a \notin {"ecc", "dilithium"} THEN rejected(400)
           ELSE IF o \notin {"keygen", "sign", "verify"} THEN rejected(400)
           ELSE IF ~(32 <= int(raw) /\ int(raw) <= 4096) THEN rejected(400)
           ELSE /\ calls < MaxRequests
                /\ response' = Pending(req)
                /\ arg' = [arg EXCEPT ![t] = [algorithm |-> a, operation |-> o,
                                               message_size |-> int(raw)]]
                /\ calls' = calls + 1
                /\ Goto(t, "lookup")
  /\ UNCHANGED << ECC_AVAILABLE, DILITHIUM_AVAILABLE, algorithms, faulty,
                  keys, nextKey, frame, outcome, last, signatures, records >>

\* The handler saving only the results whose status is success.
View_run_test_save_SuccessOnly(t) ==
  /\ outcome.kind # "none"
  /\ outcome.thread = t
  /\ response.kind = "pending"
  /\ IF outcome.kind = "raised"
       THEN /\ response' = Reply(response.request, 500)
            /\ UNCHANGED records
       ELSE /\ records' = IF outcome.result.status = "success"
                            THEN Append(records,
                                   TestResult(response.request.algorithm,
                                              response.request.operation,
                                              int(response.request.message_size),
                                              outcome.result))
                            ELSE records
            /\ response' = Reply(response.request, 200)
  /\ outcome' = NoOutcome
  /\ UNCHANGED << ECC_AVAILABLE, DILITHIUM_AVAILABLE, algorithms, faulty,
                  keys, nextKey, calls, pc, arg, frame, last, signatures >>

\* views.run_test after the controller handed back (views.py:50-87): the
\* result is saved and answered with 200; an exception out of the
\* controller is answered with 500.
View_run_test_save(t) ==
  /\ outcome.kind # "none"
  /\ outcome.thread = t
  /\ response.kind = "pending"
  /\ IF outcome.kind = "raised"
       THEN /\ response' = Reply(response.request, 500)
            /\ UNCHANGED records
       ELSE /\ records' = Append(records,
                            TestResult(response.request.algorithm,
                                       response.request.operation,
                                       int(response.request.message_size),
                                       outcome.result))
            /\ response' = Reply(response.request, 200)
  /\ outcome' = NoOutcome
  /\ UNCHANGED << ECC_AVAILABLE, DILITHIUM_AVAILABLE, algorithms, faulty,
                  keys, nextKey, calls, pc, arg, frame, last, signatures >>

Worker == "A"

HttpNext == View_run_test(Worker) \/ Step(Worker) \/ View_run_test_save(Worker)

HttpSpec == Init /\ [][HttpNext]_vars

\* --------------------------------------------------------- statistics
\* The records test_get_statistics_only_success creates directly
\* (tests/test_views.py:274-289): successes with a time and a memory usage,
\* failures with both 0, no error_message.
CreatedRows ==
  {TestResult(a, o, 256, CryptoResult(a, o, 256, time, 128, "success", {})) :
     a \in Registrable, o \in {"keygen", "sign"}, time \in {1, 3}}
  \cup {TestResult(a, o, 256, CryptoResult(a, o, 256, 0, 0, "failure", {})) :
          a \in Registrable, o \in {"keygen", "sign"}}

\* The answer of get_statistics.
Statistics(data) ==
  [kind |-> "statistics", request |-> NoRequest, status |-> 200, data |-> data]

\* The filter without its status argument.
Filter_AnyStatus(recs, algo) ==
  SelectSeq(recs, LAMBDA r : r.algorithm = algo)

\* TestResult.objects.filter(algorithm=algo, status='success'),
\* views.py:151-154.
Filter(recs, algo) ==
  SelectSeq(recs, LAMBDA r : r.algorithm = algo /\ r.status = "success")

RECURSIVE Total(_)
Total(numbers) ==
  IF numbers = << >> THEN 0 ELSE Head(numbers) + Total(Tail(numbers))

Least(numbers) ==
  CHOOSE x \in {numbers[i] : i \in DOMAIN numbers} :
    \A i \in DOMAIN numbers : x <= numbers[i]

Greatest(numbers) ==
  CHOOSE x \in {numbers[i] : i \in DOMAIN numbers} :
    \A i \in DOMAIN numbers : x >= numbers[i]

\* Avg of the database: the sum over the number of rows, kept as the
\* fraction.
Avg(numbers) == [sum |-> Total(numbers), rows |-> Len(numbers)]

\* .values('operation').annotate(...), views.py:154-160: one group for each
\* operation that has a row, with the aggregates over the rows of the group.
Annotate(rows) ==
  {LET group  == SelectSeq(rows, LAMBDA r : r.operation = op)
       times  == [i \in DOMAIN group |-> group[i].execution_time_ms]
       memory == [i \in DOMAIN group |-> group[i].memory_usage_kb]
   IN  [operation |-> op, count |-> Len(group), avg_time |-> Avg(times),
        min_time |-> Least(times), max_time |-> Greatest(times),
        avg_memory |-> Avg(memory)] :
   op \in {rows[i].operation : i \in DOMAIN rows}}

\* views.py:142-167
get_statistics(recs) ==
  [algo \in {"ecc", "dilithium"} |-> Annotate(Filter(recs, algo))]

\* TestResult.objects.create(...) called by a test.
Test_create ==
  /\ Len(records) < MaxRecords
  /\ \E row \in CreatedRows : records' = Append(records, row)
  /\ response' = NoResponse
  /\ UNCHANGED << ECC_AVAILABLE, DILITHIUM_AVAILABLE, algorithms, faulty,
                  keys, nextKey, calls, pc, arg, frame, outcome, last,
                  signatures >>

\* GET /api/statistics/
View_get_statistics ==
  /\ response' = Statistics(get_statistics(records))
  /\ UNCHANGED << ECC_AVAILABLE, DILITHIUM_AVAILABLE, algorithms, faulty,
                  keys, nextKey, calls, pc, arg, frame, outcome, last,
                  signatures, records >>

StatsNext == Test_create \/ View_get_statistics

StatsSpec == Init /\ [][StatsNext]_vars

TypeOK ==
  /\ algorithms \subseteq Registrable
  /\ faulty \subseteq algorithms
  /\ \A a \in Registrable : private_key[a] \in 0 .. MaxSeqCalls /\ public_key[a] \in 0 .. MaxSeqCalls
  /\ nextKey \in 1 .. MaxSeqCalls + 1
  /\ calls \in 0 .. MaxSeqCalls

\* ================================================================ claims
Ended    == outcome.kind # "none"
Result   == outcome.result
HasError(r) ==
  /\ r.error_message # {}
  /\ \A m \in r.error_message : \E i \in 1 .. Len(m) : m[i] # ""

\* C1: run_test is total: whatever the algorithm, the operation and the
\* message size (zero and negative sizes included), the call hands a
\* CryptoResult to its caller and never an exception.
C1_RunTestTotal == outcome.kind # "raised"

\* C2: a returned result has status 'failure' exactly when its
\* error_message is set and non-empty and both measurements are 0; a
\* result with status 'success' has no error_message.
C2_FailureIffErrorAndZeros ==
  outcome.kind = "returned" =>
    /\ Result.status \in {"success", "failure"}
    /\ Result.status = "failure" <=>
         (HasError(Result) /\ Result.execution_time_ms = 0
                           /\ Result.memory_usage_kb = 0)
    /\ Result.status = "success" => Result.error_message = {}

\* A successful call whose two measurements are both 0 and whose
\* error_message is None.
C2_Witness ==
  /\ outcome.kind = "returned"
  /\ Result.status = "success"
  /\ Result.execution_time_ms = 0
  /\ Result.memory_usage_kb = 0
  /\ Result.error_message = {}

\* C3: a call naming an algorithm that is not in the controller's mapping
\* returns, for every operation and message size and whatever ran before,
\* a failure saying the algorithm is not available, with both
\* measurements 0; it does not raise.
C3_UnregisteredReported ==
  (Ended /\ Result.algorithm \notin algorithms) =>
    /\ outcome.kind = "returned"
    /\ Result.status = "failure"
    /\ Result.error_message = {NotAvailableMsg(Result.algorithm)}
    /\ NotAvailableMsg(Result.algorithm)[3] = "' not available. Available: "
    /\ Result.execution_time_ms = 0
    /\ Result.memory_usage_kb = 0

\* The unregistered-algorithm report for a negative size, made while
\* another call is inside generate_keys.
C3_Witness ==
  /\ outcome.kind = "returned"
  /\ Result.algorithm \notin algorithms
  /\ Result.message_size < 0
  /\ Result.status = "failure"
  /\ \E u \in Threads : pc[u] \in {"ecc_load", "dil_pub"}

\* C4: when the calls on the shared controller do not overlap, every
\* 'verify' call on a registered, correctly functioning algorithm returns
\* status 'success', whatever calls preceded it.
C4_SeqVerifySucceeds ==
  (Ended /\ Result.operation = "verify"
         /\ Result.algorithm \in algorithms \ faulty) =>
    (outcome.kind = "returned" /\ Result.status = "success")

\* C5: for every interleaving of calls on a registered algorithm, no call
\* returns the instance's 'Keys not generated' error.
C5_NoKeysNotGenerated ==
  outcome.kind = "returned" => Result.error_message # {KeysNotGenerated}

\* C6: access to an algorithm's key slot is not serialized: while one call
\* is between its sign and its verify, a concurrent call on the same
\* algorithm that has reached generate_keys can always take its step.
C6_KeySlotNotSerialized ==
  \A t, u \in Threads :
    (t # u /\ pc[t] = "verify" /\ pc[u] = "generate_keys" /\ Alg(u) = Alg(t))
      => ENABLED (ECC_generate_keys_47(u) \/ DIL_generate_keys_100(u))

\* Thread u's keygen has installed its whole key pair after thread t
\* signed, and t is about to verify against it.
C6_Witness ==
  \E t, u \in Threads :
    /\ t # u
    /\ pc[t] = "verify"
    /\ Op(u) = "keygen"
    /\ Alg(u) = Alg(t)
    /\ frame[u].fresh # None
    /\ private_key[Alg(t)] = frame[u].fresh
    /\ public_key[Alg(t)] = frame[u].fresh
    /\ frame[t].signature.key \notin {None, frame[u].fresh}

\* C7: a 'sign' call on a registered, correctly functioning algorithm
\* whose instance holds no key pair calls generate_keys and then sign,
\* returns status 'success' and leaves the instance holding a key pair.
\* When calls do not overlap the instance held no key at the call iff the
\* call provisioned one or the instance still holds none.
C7_SignProvisions ==
  (Ended /\ Result.operation = "sign"
         /\ Result.algorithm \in algorithms \ faulty
         /\ (outcome.provisioned \/ private_key[Result.algorithm] = None)) =>
    /\ outcome.kind = "returned"
    /\ Result.status = "success"
    /\ outcome.provisioned
    /\ private_key[Result.algorithm] # None
    /\ public_key[Result.algorithm] # None

\* C8: a 'keygen' call invokes generate_keys whether or not a key pair is
\* held: after a successful keygen call that no other call overlaps, the
\* instance holds the pair this call generated, the newest one the
\* library has made.
C8_KeygenReplaces ==
  (outcome.kind = "returned" /\ Result.operation = "keygen"
                             /\ Result.status = "success") =>
    /\ outcome.provisioned
    /\ outcome.generated # None
    /\ outcome.generated = nextKey - 1
    /\ private_key[Result.algorithm] = outcome.generated
    /\ public_key[Result.algorithm] = outcome.generated

\* A successful ecc keygen that replaced the pair of an earlier call.
C8_Witness ==
  /\ outcome.kind = "returned"
  /\ Result.operation = "keygen"
  /\ Result.status = "success"
  /\ Result.algorithm = "ecc"
  /\ private_key["dilithium"] = None
  /\ public_key["dilithium"] = None
  /\ outcome.generated = 2
  /\ private_key["ecc"] = 2

\* C9: a 'sign' or 'verify' call that finds a private key at its dispatch
\* goes on to sign without calling generate_keys, and no step of such a
\* call changes either key of any instance.
C9_KeysReused ==
  [][\A t \in Threads :
       (Op(t) \in {"sign", "verify"} /\ pc'[t] # pc[t]) =>
         /\ (pc[t] = "dispatch" /\ ~NeedsKeys(Alg(t))) =>
              (pc'[t] = "sign" /\ ~frame'[t].provisioned)
         /\ (pc[t] \notin {"idle", "lookup", "urandom", "mem_before",
                           "timer_start"} /\ ~frame[t].provisioned
                                          /\ pc[t] # "dispatch") =>
              UNCHANGED keys
         /\ (pc[t] = "dispatch") => UNCHANGED keys]_vars

\* A verify call that reused the held key pair has returned success.
C9_Witness ==
  /\ outcome.kind = "returned"
  /\ Result.operation = "verify"
  /\ Result.status = "success"
  /\ ~outcome.provisioned
  /\ private_key[Result.algorithm] # None
  /\ private_key[Result.algorithm] = public_key[Result.algorithm]

\* C10: a call on a registered algorithm with an operation other than
\* keygen, sign or verify returns a failure whose error_message names the
\* unknown operation, and raises nothing.
C10_UnknownOperationReported ==
  (Ended /\ Result.algorithm \in algorithms
         /\ Result.operation \notin KnownOps) =>
    /\ outcome.kind = "returned"
    /\ Result.status = "failure"
    /\ Result.error_message = {UnknownOperation(Result.operation)}

\* A call whose operation is none of keygen, sign and verify.
UnknownOpCall(t) == pc[t] # "idle" /\ Op(t) \notin KnownOps

\* C11 as stated: for an unknown operation run_test samples no memory and
\* starts no timer, i.e. such a call never gets past line 172.
C11_NoTimingStarted ==
  \A t \in Threads :
    UnknownOpCall(t) => pc[t] \notin {"timer_start", "dispatch", "except"}

\* C11: for an unknown operation no timing is completed or reported: the
\* call samples memory and starts the timer (lines 172-173) before it looks
\* at the operation, but it never stops the timer nor samples memory again,
\* and the result it returns carries zero time and zero memory.
C11_NoTimingReported ==
  /\ \A t \in Threads :
       UnknownOpCall(t) =>
         pc[t] \notin {"generate_keys", "sign", "verify",
                       "timer_stop", "mem_after"}
  /\ (outcome.kind = "returned" /\ Result.operation \notin KnownOps) =>
       /\ Result.status = "failure"
       /\ Result.execution_time_ms = 0
       /\ Result.memory_usage_kb = 0

\* An unknown operation on a registered algorithm was rejected by the
\* dispatch, after the first memory sample and the start of the timer.
C11_Witness ==
  /\ outcome.kind = "returned"
  /\ Result.algorithm \in algorithms
  /\ Result.operation \notin KnownOps
  /\ Result.error_message = {UnknownOperation(Result.operation)}
  /\ Result.execution_time_ms = 0
  /\ Result.memory_usage_kb = 0

\* C17 as stated: every result run_test returns names one of the two
\* algorithms and one of the three operations.
C17_ClosedIdentifiers ==
  outcome.kind = "returned" =>
    /\ Result.algorithm \in Registrable
    /\ Result.operation \in KnownOps

\* C17: every result run_test returns carries the algorithm, the operation
\* and the message size the call was given, whatever they are; a result
\* whose status is success names one of the two algorithms and one of the
\* three operations.
C17_EchoesArguments ==
  [][\A t \in Threads :
       (outcome'.kind = "returned" /\ outcome'.thread = t /\ pc[t] # "idle") =>
         /\ outcome'.result.algorithm = arg[t].algorithm
         /\ outcome'.result.operation = arg[t].operation
         /\ outcome'.result.message_size = arg[t].message_size
         /\ outcome'.result.status = "success" =>
              /\ outcome'.result.algorithm \in Registrable
              /\ outcome'.result.operation \in KnownOps]_vars

\* A sign on dilithium succeeded and its result names both.
C17_Witness ==
  /\ outcome.kind = "returned"
  /\ Result.status = "success"
  /\ Result.algorithm = "dilithium"
  /\ Result.operation = "sign"

C19_MeasurementsNonNegative ==
  outcome.kind = "returned" =>
    /\ Result.memory_usage_kb >= 0
    /\ Result.execution_time_ms >= 0
    /\ Result.status = "success" =>
         Result.memory_usage_kb =
           (IF outcome.memory_delta < 0 THEN 0 ELSE outcome.memory_delta)

\* A success whose second memory sample was below the first, reported as 0.
C19_Witness ==
  /\ outcome.kind = "returned"
  /\ Result.status = "success"
  /\ outcome.memory_delta < 0
  /\ Result.memory_usage_kb = 0

\* The positions between the start and the stop of the timer
\* (controller.py:175-190 and the methods called from there).
TimedWindow ==
  {"dispatch", "generate_keys", "ecc_load", "ecc_store", "dil_pub",
   "dil_priv", "sign", "verify"}

\* The positions inside generate_keys.
InGenerateKeys ==
  {"generate_keys", "ecc_load", "ecc_store", "dil_pub", "dil_priv"}

\* C23: a call on a registered algorithm generates the test message, then
\* samples memory_before, then starts the timer, then runs the operation
\* (generate_keys included, whether asked for or on demand), then stops the
\* timer, then samples memory_after and returns success; the message is
\* generated before the first memory sample and not touched afterwards,
\* generate_keys is entered from inside the timed window only, and a
\* success is returned from the second memory sample only.
C23_StepOrder ==
  [][\A t \in Threads :
       pc'[t] # pc[t] =>
         /\ (pc[t] = "lookup" /\ Alg(t) \in algorithms) => pc'[t] = "urandom"
         /\ pc'[t] = "urandom" => pc[t] = "lookup"
         /\ pc[t] = "urandom" =>
              /\ pc'[t] \in {"mem_before", "idle"}
              /\ pc'[t] = "mem_before" =>
                   frame'[t].test_message = urandom(Size(t))
         /\ pc'[t] = "mem_before" => pc[t] = "urandom"
         /\ pc[t] = "mem_before" => pc'[t] = "timer_start"
         /\ pc'[t] = "timer_start" => pc[t] = "mem_before"
         /\ pc[t] = "timer_start" => pc'[t] = "dispatch"
         /\ pc'[t] \in TimedWindow => pc[t] \in TimedWindow \cup {"timer_start"}
         /\ pc[t] \in TimedWindow =>
              pc'[t] \in TimedWindow \cup {"timer_stop", "except"}
         /\ pc'[t] \in InGenerateKeys => pc[t] \in TimedWindow
         /\ pc'[t] = "timer_stop" => pc[t] \in TimedWindow
         /\ pc[t] = "timer_stop" => pc'[t] = "mem_after"
         /\ pc'[t] = "mem_after" => pc[t] = "timer_stop"
         /\ pc[t] = "mem_after" =>
              /\ pc'[t] = "idle"
              /\ outcome'.kind = "returned"
              /\ outcome'.result.status = "success"
         /\ (outcome'.kind = "returned" /\ outcome'.thread = t
                /\ outcome'.result.status = "success") => pc[t] = "mem_after"
         /\ pc[t] \in {"mem_before", "timer_start", "timer_stop"}
                     \cup TimedWindow =>
              /\ frame[t].test_message = urandom(Size(t))
              /\ frame'[t].test_message = frame[t].test_message]_vars

\* A sign call that found no key has run generate_keys on demand inside the
\* timed window, stopped the timer after it and is about to sample
\* memory_after, while the other call is still inside its own window.
C23_Witness ==
  \E t, u \in Threads :
    /\ t # u
    /\ pc[t] = "mem_after"
    /\ Op(t) = "sign"
    /\ frame[t].provisioned
    /\ frame[t].end_time = MaxTime
    /\ frame[t].test_message = urandom(32)
    /\ pc[u] \in TimedWindow

\* C24: an exception raised between the start and the stop of the timer
\* (by generate_keys, by sign, by verify, by the check of verify's answer
\* or by the check of the operation) never leaves run_test: the call goes
\* to the handler, and the handler returns a failure whose error_message
\* is the exception's text and whose time and memory are 0, whatever the
\* clock and the resident set did meanwhile.
C24_DispatchExceptionsCaught ==
  [][\A t \in Threads :
       pc'[t] # pc[t] =>
         /\ pc[t] \in TimedWindow => outcome'.kind = "none"
         /\ (pc[t] \in TimedWindow /\ frame'[t].exc # NoExc) =>
              pc'[t] = "except"
         /\ pc'[t] = "except" =>
              /\ pc[t] \in TimedWindow
              /\ frame'[t].exc \in {KeysNotGenerated, VerificationFailed,
                                     BackendFault, UnknownOperation(Op(t))}
         /\ pc[t] = "except" =>
              /\ pc'[t] = "idle"
              /\ outcome'.kind = "returned"
              /\ outcome'.thread = t
              /\ outcome'.result.status = "failure"
              /\ outcome'.result.error_message = {frame[t].exc}
              /\ outcome'.result.execution_time_ms = 0
              /\ outcome'.result.memory_usage_kb = 0]_vars

\* The check of verify's answer raised in a call that had generated keys
\* on demand, and the call returned the failure with zero measurements.
C24_Witness ==
  /\ outcome.kind = "returned"
  /\ Result.operation = "verify"
  /\ Result.status = "failure"
  /\ Result.error_message = {VerificationFailed}
  /\ outcome.provisioned
  /\ Result.execution_time_ms = 0
  /\ Result.memory_usage_kb = 0

\* C25: the controller's mapping holds an algorithm only if its library
\* imported and its implementation constructed: ecc is registered exactly
\* when ecdsa imported, dilithium only when oqs imported, and a failure of
\* one does not keep the other out; the mapping never changes afterwards,
\* and a call for one of the two algorithms that is not registered returns
\* the not-available failure and raises nothing.
C25_OnlyInitializedRegistered ==
  /\ algorithms \subseteq Registrable
  /\ "ecc" \in algorithms <=> ECC_AVAILABLE
  /\ "dilithium" \in algorithms => DILITHIUM_AVAILABLE
  /\ \A t \in Threads :
       pc[t] \notin {"idle", "lookup"} => Alg(t) \in algorithms
  /\ (Ended /\ Result.algorithm \in Registrable \ algorithms) =>
       /\ outcome.kind = "returned"
       /\ Result.status = "failure"
       /\ Result.error_message = {NotAvailableMsg(Result.algorithm)}

\* oqs imported but DILITHIUMImplementation() failed: ecc is registered,
\* dilithium is not, and a dilithium call was answered with the failure
\* that carries no installation hint.
C25_Witness ==
  /\ DILITHIUM_AVAILABLE
  /\ algorithms = {"ecc"}
  /\ outcome.kind = "returned"
  /\ Result.algorithm = "dilithium"
  /\ Result.status = "failure"
  /\ Len(NotAvailableMsg("dilithium")) = 4

\* C27: whenever no call is running, the public key of each instance is
\* the one that matches its private key, both from the same generate_keys
\* call (or both absent), whatever the interleaving of the calls before;
\* this is what a later verify call needs to succeed.
C27_KeyPairCoherent ==
  (\A t \in Threads : pc[t] = "idle") =>
    \A a \in Registrable : public_key[a] = private_key[a]

\* C28: while the only calls the controller has ever been given are sign
\* and verify calls on one algorithm, all of them still running, the
\* library has generated at most one key pair: generate_keys has run at
\* most once on the instance, so no call has replaced the pair another
\* call installed.
C28_ProvisionsAtMostOnce ==
  (/\ calls = Cardinality(Threads)
   /\ \A t \in Threads : pc[t] # "idle" /\ Op(t) \in {"sign", "verify"}
   /\ \A t, u \in Threads : Alg(t) = Alg(u)) =>
    nextKey <= 2

\* C29: no step of a call for one algorithm, whatever the operation and
\* however the call ends, changes the private or the public key of the
\* other algorithm's instance.
C29_AlgorithmsIsolated ==
  [][\A t \in Threads :
       pc'[t] # pc[t] =>
         \A a \in Registrable :
           (pc[t] = "idle" \/ a # Alg(t)) =>
             /\ private_key'[a] = private_key[a]
             /\ public_key'[a] = public_key[a]]_vars

\* An ecc keygen call has installed its pair and returned while the
\* dilithium instance still holds the pair an earlier call gave it.
C29_Witness ==
  /\ outcome.kind = "returned"
  /\ Result.algorithm = "ecc"
  /\ Result.operation = "keygen"
  /\ Result.status = "success"
  /\ outcome.generated = 2
  /\ private_key["ecc"] = 2
  /\ public_key["ecc"] = 2
  /\ private_key["dilithium"] = 1
  /\ public_key["dilithium"] = 1

\* C30: no step of a call whose algorithm is not registered or whose
\* operation is none of keygen, sign and verify changes the mapping, a
\* private key or a public key, or makes the library generate a key pair;
\* such a call never enters generate_keys, sign or verify.
C30_RejectedCallChangesNothing ==
  [][\A t \in Threads :
       (/\ pc'[t] # pc[t]
        /\ pc[t] # "idle"
        /\ (Alg(t) \notin algorithms \/ Op(t) \notin KnownOps)) =>
         /\ algorithms' = algorithms
         /\ private_key' = private_key
         /\ public_key' = public_key
         /\ nextKey' = nextKey
         /\ pc'[t] \notin InGenerateKeys \cup {"sign", "verify"}]_vars

\* An unknown operation on a registered algorithm was rejected while the
\* instance holds the key pair an earlier call installed, the only pair
\* the library has made.
C30_Witness ==
  /\ outcome.kind = "returned"
  /\ Result.algorithm \in algorithms
  /\ Result.operation \notin KnownOps
  /\ Result.status = "failure"
  /\ private_key[Result.algorithm] = 1
  /\ public_key[Result.algorithm] = 1
  /\ nextKey = 2

\* -------------------------------------------- claims on the direct calls
\* The caller holds `sig` as what `i` returned from sign(m) under the
\* private key `i` holds now.
SignedHereNow(i, m, sig) ==
  \E p \in signatures :
    /\ p.value = sig /\ p.signer = i /\ p.signed = m
    /\ p.under = private_key[i]

\* C12: sign and verify called on an instance that holds no key pair fail
\* with ValueError "Keys not generated. Call generate_keys() first.", for
\* every message and signature, and the instance still holds no key pair.
C12_NoKeysRaises ==
  [][\A i \in Instances :
       (/\ last'.op \in {"sign", "verify"} /\ last'.inst = i
        /\ private_key[i] = None /\ public_key[i] = None) =>
         /\ last'.kind = "raised"
         /\ last'.raised = KeysNotGenerated
         /\ private_key'[i] = None
         /\ public_key'[i] = None]_vars

\* verify was called with unrelated bytes on an instance without keys while
\* another instance holds a key pair, and it raised.
C12_Witness ==
  /\ last.op = "verify"
  /\ last.kind = "raised"
  /\ last.sig = FakeSignature
  /\ private_key[last.inst] = None
  /\ \E j \in Instances : private_key[j] # None

\* C13: on an instance that holds a key pair verify never raises, and it
\* returns true only for a message and a signature that sign returned for
\* that very message under the private key the instance holds now; for a
\* damaged or unrelated signature or another message it returns false.
C13_VerifyOnlyOwnSignatures ==
  (last.op = "verify" /\ public_key[last.inst] # None) =>
    /\ last.kind = "returned"
    /\ last.value =>
         \E p \in signatures :
           /\ p.value = last.sig /\ p.signed = last.msg
           /\ p.under = private_key[last.inst]

\* A damaged copy of the instance's own signature of the message was
\* rejected by a dilithium instance without an exception.
C13_Witness ==
  /\ last.op = "verify"
  /\ last.kind = "returned"
  /\ ~last.value
  /\ ClassOf(last.inst) = "dilithium"
  /\ \E p \in signatures :
       /\ last.sig = Damaged(p.value) /\ p.signed = last.msg
       /\ p.under = private_key[last.inst]

\* C14: verify(m, sign(m)) on the same instance is true for every message,
\* the empty one included, as long as generate_keys was not called on the
\* instance after the signature was made.
C14_RoundTrip ==
  (last.op = "verify" /\ SignedHereNow(last.inst, last.msg, last.sig)) =>
    /\ last.kind = "returned"
    /\ last.value

\* The signature of the empty message verified on the instance that made it.
C14_Witness ==
  /\ last.op = "verify"
  /\ last.msg = << >>
  /\ SignedHereNow(last.inst, last.msg, last.sig)
  /\ last.value

\* C15: two instances of the same class never hold the same key pair, and
\* an instance that holds a key pair rejects every signature another
\* instance made.
C15_KeyIsolation ==
  /\ \A i, j \in Instances :
       (i # j /\ private_key[i] # None) =>
         /\ private_key[i] # private_key[j]
         /\ public_key[i] # public_key[j]
  /\ (/\ last.op = "verify" /\ public_key[last.inst] # None
      /\ \E p \in signatures : p.value = last.sig /\ p.signer # last.inst) =>
       /\ last.kind = "returned"
       /\ ~last.value

\* An instance holding a key pair rejected the signature that the other
\* instance of its class made of the same message under the key pair that
\* instance still holds.
C15_Witness ==
  /\ last.op = "verify"
  /\ last.kind = "returned"
  /\ ~last.value
  /\ public_key[last.inst] # None
  /\ \E p \in signatures :
       /\ p.value = last.sig /\ p.signed = last.msg
       /\ p.signer # last.inst
       /\ ClassOf(p.signer) = ClassOf(last.inst)
       /\ p.under = private_key[p.signer]

\* C16: a verify that repeats the preceding verify (same instance, message
\* and signature) returns the same boolean, and neither sign nor verify
\* changes a key slot, so that only generate_keys can change a verdict.
C16_VerifyDeterministic ==
  [][/\ last'.op \in {"sign", "verify"} =>
         (private_key' = private_key /\ public_key' = public_key)
     /\ (last'.op = "verify" /\ last'.repeated) =>
         (last'.kind = last.kind /\ last'.value = last.value)]_vars

\* A verify of the instance's own signature was repeated and was true again.
C16_Witness ==
  /\ last.op = "verify"
  /\ last.repeated
  /\ last.value
  /\ SignedHereNow(last.inst, last.msg, last.sig)

\* C26: an instance starts without a key pair; a call of sign or verify,
\* returning or raising, leaves both key slots of every instance as they
\* were; only generate_keys changes a slot, and only the two slots of the
\* instance it is called on, which then hold one pair: the private key and
\* the public key of the same generation.
C26_OnlyGenerateKeysMutates ==
  /\ \A i \in Instances : private_key[i] = None /\ public_key[i] = None
  /\ [][/\ last'.op \in {"sign", "verify"} => UNCHANGED keys
        /\ \A i \in Instances :
             (private_key'[i] # private_key[i] \/ public_key'[i] # public_key[i])
               => /\ last'.op = "generate_keys"
                  /\ last'.inst = i
                  /\ last'.kind = "returned"
                  /\ private_key'[i] # None
                  /\ public_key'[i] = private_key'[i]
        /\ \A i \in Instances :
             public_key'[i] = private_key'[i]]_vars

\* An instance that replaced its first key pair by a second one rejected a
\* signature and still holds the second pair, while no other instance has
\* a key.
C26_Witness ==
  /\ last.op = "verify"
  /\ last.kind = "returned"
  /\ ~last.value
  /\ nextKey = 3
  /\ private_key[last.inst] = 2
  /\ public_key[last.inst] = 2
  /\ \A j \in Instances \ {last.inst} : private_key[j] = None

\* ------------------------------------------------ claims on the HTTP layer
\* A request the handler is to refuse: its algorithm, its operation or its
\* numeric message_size is outside the accepted values.
InvalidRequest(req) ==
  \/ req.algorithm \notin {"ecc", "dilithium"}
  \/ req.operation \notin {"keygen", "sign", "verify"}
  \/ /\ req.message_size.kind = "number"
     /\ (req.message_size.twice < 2 * 32 \/ req.message_size.twice > 2 * 4096)

\* C20: a decodable request whose algorithm, operation or message_size is
\* outside the accepted values is answered with status 400, the controller
\* is not called and the persisted records are unchanged.
C20_InvalidRejected ==
  [][(/\ response.kind # "pending"
      /\ response'.kind # "none"
      /\ response'.request.json
      /\ InvalidRequest(response'.request)) =>
        /\ response'.kind = "reply"
        /\ response'.status = 400
        /\ calls' = calls
        /\ pc' = pc
        /\ records' = records]_vars

Successes(algo, op) ==
  {i \in DOMAIN records :
     /\ records[i].algorithm = algo /\ records[i].operation = op
     /\ records[i].status = "success"}

\* C22: the statistics report, for each algorithm and operation, a count
\* equal to the number of persisted records with that algorithm, that
\* operation and status success (no group at all when there is none), a
\* minimum and a maximum that are the least and the greatest time of those
\* records and averages that are their sums over their number; records with
\* status failure contribute to none of them.
C22_StatisticsCountSuccessOnly ==
  response.kind = "statistics" =>
    \A algo \in Registrable, op \in KnownOps :
      LET S      == Successes(algo, op)
          groups == {g \in response.data[algo] : g.operation = op}
      IN  /\ S = {} => groups = {}
          /\ S # {} =>
               /\ Cardinality(groups) = 1
               /\ \A g \in groups :
                    /\ g.count = Cardinality(S)
                    /\ \E i \in S : g.min_time = records[i].execution_time_ms
                    /\ \E i \in S : g.max_time = records[i].execution_time_ms
                    /\ \A i \in S : /\ g.min_time <= records[i].execution_time_ms
                                     /\ g.max_time >= records[i].execution_time_ms
                    /\ g.avg_time.rows = Cardinality(S)
                    /\ g.avg_time.sum >= g.min_time * Cardinality(S)
                    /\ g.avg_time.sum <= g.max_time * Cardinality(S)
                    /\ g.avg_memory.rows = Cardinality(S)

\* The statistics of two successes and one failure of the same algorithm
\* and operation: the count is 2 and the minimum is not the failure's 0.
C22_Witness ==
  /\ response.kind = "statistics"
  /\ Len(records) = 3
  /\ \E i \in DOMAIN records :
       /\ records[i].algorithm = "ecc" /\ records[i].operation = "keygen"
       /\ records[i].status = "failure"
  /\ \E g \in response.data["ecc"] :
       /\ g.operation = "keygen" /\ g.count = 2
       /\ g.min_time = 1 /\ g.max_time = 3

====
